---- MODULE Spec2Model ----
(***************************************************************************)
(* A model of starlette/websockets.py: the WebSocket object, its two       *)
(* state trackers (client_state, application_state), the receive and send  *)
(* state machines, accept, the typed helpers, the async iterators and      *)
(* close.                                                                  *)
(*                                                                         *)
(* A message is a record whose DOMAIN is the set of keys of the ASGI       *)
(* dict: message["text"] raises KeyError exactly when "text" is not in     *)
(* DOMAIN message.  Text payloads are strings, byte payloads are tuples    *)
(* of byte values; a key that is present with the value None holds         *)
(* NoneOf(key).                                                            *)
(*                                                                         *)
(* Every method is an operator from the state of the object (and the       *)
(* message the transport yields if the method awaits self._receive) to a   *)
(* result record: the new state, the messages read from self._receive      *)
(* (rx), the messages handed to self._send (tx), the exception raised      *)
(* ("None" for a normal return) and the returned value or the argument of  *)
(* the exception.  The transport callables themselves are outside the      *)
(* file.  Where calls are made one at a time (Spec, SpecIter) they yield   *)
(* any message of InboundMessages and do not raise; where two flows share  *)
(* the object (SpecConc, SpecFail) each call is split at its await, the    *)
(* transport yields messages in the ASGI order, and in SpecFail its send   *)
(* side may raise.                                                         *)
(***************************************************************************)
EXTENDS Integers, Sequences, FiniteSets, TLC

VARIABLES client_state, application_state, sent, last, gen, rxflow, txflow, wire,
          inbound, returns

vars == <<client_state, application_state, sent, last, gen, rxflow, txflow, wire,
          inbound, returns>>

\* the variables of the two concurrent flows and of the transport they share
conc == <<rxflow, txflow, wire, inbound, returns>>

-----------------------------------------------------------------------------
(* Bounds of the model.                                                    *)

\* the longest trace of messages handed to self._send that is explored
MaxSent == 3
\* the most values one async iterator yields
MaxYield == 2
\* the most messages the transport yields to the two concurrent flows
MaxInbound == 3

-----------------------------------------------------------------------------
(* class WebSocketState(enum.Enum)                                         *)

CONNECTING == 0
CONNECTED == 1
DISCONNECTED == 2

WebSocketState == {CONNECTING, CONNECTED, DISCONNECTED}

-----------------------------------------------------------------------------
(* Messages.                                                               *)

Texts == {"a", "1"}
ByteStrings == {<<49>>, <<255>>}
Codes == {1000, 4000}
Subprotocols == {"None"}
Modes == {"text", "binary"}
JsonValues == {1}

\* Python's None as the value of message[key]: the string "None" is no text
\* of the model, and no byte string holds a negative byte
NoneOf(key) == IF key = "text" THEN "None" ELSE <<-1>>

\* what self._receive can yield: the four ASGI message types, data messages
\* with a text payload, a bytes payload or neither (the keys missing, or
\* both present and None)
InboundMessages ==
    {[type |-> "websocket.connect"], [type |-> "websocket.accept"], [type |-> "websocket.receive"]}
    \cup {[type |-> "websocket.receive", text |-> NoneOf("text"), bytes |-> NoneOf("bytes")]}
    \cup {[type |-> "websocket.receive", text |-> t] : t \in Texts}
    \cup {[type |-> "websocket.receive", bytes |-> b] : b \in ByteStrings}
    \cup {[type |-> "websocket.disconnect", code |-> c] : c \in Codes}

\* what a caller can pass to send() directly
OutboundMessages ==
    {[type |-> "websocket.connect"]}
    \cup {[type |-> "websocket.accept", subprotocol |-> s] : s \in Subprotocols}
    \cup {[type |-> "websocket.send", text |-> t] : t \in Texts}
    \cup {[type |-> "websocket.close", code |-> c] : c \in Codes}

ReceiveAfterDisconnect == "Cannot call \"receive\" once a disconnect message has been received."
SendAfterClose == "Cannot call \"send\" once a close message has been sent."

-----------------------------------------------------------------------------
(* Results of a method call.                                               *)

Self == [client_state |-> client_state, application_state |-> application_state]

Return(self, rx, tx, value) ==
    [client_state |-> self.client_state, application_state |-> self.application_state,
     rx |-> rx, tx |-> tx, exc |-> "None", value |-> value]

Raise(self, rx, tx, exc, value) ==
    [client_state |-> self.client_state, application_state |-> self.application_state,
     rx |-> rx, tx |-> tx, exc |-> exc, value |-> value]

StateOf(r) == [client_state |-> r.client_state, application_state |-> r.application_state]

-----------------------------------------------------------------------------
(* json and utf-8, on the payloads of the model.                           *)

Chr(b) == CASE b = 49 -> "1" [] b = 97 -> "a"

RECURSIVE DecodeAscii(_)
DecodeAscii(b) == IF b = <<>> THEN "" ELSE Chr(Head(b)) \o DecodeAscii(Tail(b))

\* bytes.decode("utf-8"): a byte above 0x7f that starts no valid sequence fails
Utf8Valid(b) == \A i \in 1..Len(b) : b[i] < 128
Utf8Decode(b) == DecodeAscii(b)
Utf8Encode(t) == CASE t = "1" -> <<49>> [] t = "a" -> <<97>>

\* json.loads / json.dumps on the documents of the model
JsonValid(t) == t = "1"
JsonLoads(t) == CASE t = "1" -> 1
JsonDumps(v) == CASE v = 1 -> "1"

-----------------------------------------------------------------------------
(* WebSocket.receive                                                       *)

\* if self.client_state == WebSocketState.CONNECTING
receive_is_connecting(state) == state = CONNECTING

\* (variant with a bug: a plain else, which also takes a closed connection)
receive_is_not_connecting(state) == state # CONNECTING

\* elif self.client_state == WebSocketState.CONNECTED
receive_is_connected(state) == state = CONNECTED

\* (variant with a bug: a data message is taken for the connect)
receive_connecting_ok_lenient(message_type) ==
    message_type \in {"websocket.connect", "websocket.receive"}

\* (variant with a bug: a disconnect before the connect is let through)
receive_connecting_ok_or_disconnect(message_type) ==
    message_type \in {"websocket.connect", "websocket.disconnect"}

\* assert message_type == "websocket.connect"
receive_connecting_ok(message_type) == message_type = "websocket.connect"

\* (variant with a bug: a second connect is let through)
receive_connected_ok_lenient(message_type) ==
    message_type \in {"websocket.connect", "websocket.receive", "websocket.disconnect"}

\* assert message_type in {"websocket.receive", "websocket.disconnect"}
receive_connected_ok(message_type) ==
    message_type \in {"websocket.receive", "websocket.disconnect"}

\* (variant with a bug: a disconnect resets the tracker)
receive_connected_next_reset(state, message_type) ==
    IF message_type = "websocket.disconnect" THEN CONNECTING ELSE state

\* client_state after a message accepted in the CONNECTED branch
receive_connected_next(state, message_type) ==
    IF message_type = "websocket.disconnect" THEN DISCONNECTED ELSE state

\* (variant with a bug: one state for both directions, a disconnect closes both)
receive_connected_self_both(self, message_type) ==
    [self EXCEPT !.client_state = receive_connected_next(@, message_type),
                 !.application_state = receive_connected_next(@, message_type)]

\* if message_type == "websocket.disconnect": self.client_state = DISCONNECTED
receive_connected_self(self, message_type) ==
    [self EXCEPT !.client_state = receive_connected_next(@, message_type)]

\* the CONNECTING branch from "message = await self._receive()" on; message
\* is what the await yields and self the object when it resumes
receive_connecting(self, message) ==
    IF receive_connecting_ok(message.type)
    THEN Return([self EXCEPT !.client_state = CONNECTED], <<message>>, <<>>, message)
    ELSE Raise(self, <<message>>, <<>>, "AssertionError", "None")

\* the CONNECTED branch from "message = await self._receive()" on
receive_connected(self, message) ==
    IF receive_connected_ok(message.type)
    THEN Return(receive_connected_self(self, message.type), <<message>>, <<>>, message)
    ELSE Raise(self, <<message>>, <<>>, "AssertionError", "None")

\* message is what "await self._receive()" yields, when the method awaits it
receive(self, message) ==
    IF receive_is_connecting(self.client_state) THEN receive_connecting(self, message)
    ELSE IF receive_is_connected(self.client_state) THEN receive_connected(self, message)
    ELSE Raise(self, <<>>, <<>>, "RuntimeError", ReceiveAfterDisconnect)

-----------------------------------------------------------------------------
(* WebSocket.send                                                          *)

\* if self.application_state == WebSocketState.CONNECTING
send_is_connecting(state) == state = CONNECTING

\* (variant with a bug: a plain else, which also takes a closed connection)
send_is_not_connecting(state) == state # CONNECTING

\* elif self.application_state == WebSocketState.CONNECTED
send_is_connected(state) == state = CONNECTED

\* (variant with a bug: data is let through before the accept)
send_connecting_ok_lenient(message_type) ==
    message_type \in {"websocket.accept", "websocket.send", "websocket.close"}

\* assert message_type in {"websocket.accept", "websocket.close"}
send_connecting_ok(message_type) ==
    message_type \in {"websocket.accept", "websocket.close"}

\* (variant with a bug: a second accept is let through)
send_connected_ok_lenient(message_type) ==
    message_type \in {"websocket.accept", "websocket.send", "websocket.close"}

\* assert message_type in {"websocket.send", "websocket.close"}
send_connected_ok(message_type) ==
    message_type \in {"websocket.send", "websocket.close"}

\* (variant with a bug: the state is not set before the message is handed over)
send_connecting_next_late(message_type) == CONNECTING

\* application_state after a message accepted in the CONNECTING branch
send_connecting_next(message_type) ==
    IF message_type = "websocket.close" THEN DISCONNECTED ELSE CONNECTED

\* (variant with a bug: a close leaves the tracker as it is)
send_connected_next_stay(state, message_type) == state

\* application_state after a message accepted in the CONNECTED branch
send_connected_next(state, message_type) ==
    IF message_type = "websocket.close" THEN DISCONNECTED ELSE state

\* (variant with a bug: one state for both directions, a close closes both)
send_connected_self_both(self, message_type) ==
    [self EXCEPT !.application_state = send_connected_next(@, message_type),
                 !.client_state = send_connected_next(@, message_type)]

\* if message_type == "websocket.close": self.application_state = DISCONNECTED
send_connected_self(self, message_type) ==
    [self EXCEPT !.application_state = send_connected_next(@, message_type)]

\* the method up to "await self._send(message)": tx holds the message when
\* the call of self._send is reached
send(self, message) ==
    IF send_is_connecting(self.application_state) THEN
        IF send_connecting_ok(message.type)
        THEN Return([self EXCEPT !.application_state = send_connecting_next(message.type)],
                    <<>>, <<message>>, "None")
        ELSE Raise(self, <<>>, <<>>, "AssertionError", "None")
    ELSE IF send_is_connected(self.application_state) THEN
        IF send_connected_ok(message.type)
        THEN Return(send_connected_self(self, message.type), <<>>, <<message>>, "None")
        ELSE Raise(self, <<>>, <<>>, "AssertionError", "None")
    ELSE Raise(self, <<>>, <<>>, "RuntimeError", SendAfterClose)

-----------------------------------------------------------------------------
(* WebSocket.accept                                                        *)

\* "then" runs a second call on the state the first one left, and joins what
\* the two read and sent; an exception of the first call ends the method
Then(first, second) ==
    [second EXCEPT !.rx = first.rx \o @, !.tx = first.tx \o @]

accept_message(subprotocol) == [type |-> "websocket.accept", subprotocol |-> subprotocol]

\* accept() from the return of its receive() on; r is the result of that call
accept_after_receive(r, subprotocol) ==
    IF r.exc # "None" THEN r
    ELSE Then(r, send(StateOf(r), accept_message(subprotocol)))

\* if self.client_state == WebSocketState.CONNECTING
accept_receives(self) == self.client_state = CONNECTING

accept(self, message, subprotocol) ==
    IF accept_receives(self)
    THEN accept_after_receive(receive(self, message), subprotocol)
    ELSE send(self, accept_message(subprotocol))

-----------------------------------------------------------------------------
(* WebSocket._raise_on_disconnect and the typed receive helpers            *)

\* if message["type"] == "websocket.disconnect"
raise_on_disconnect(message) == message.type = "websocket.disconnect"

\* (variant with a bug: raise WebSocketDisconnect(), the code left to its default)
disconnect_code_default(message) == 1000

\* raise WebSocketDisconnect(message["code"])
disconnect_code(message) == message.code

\* (variant with a bug: only a closed connection is refused)
helper_state_ok_not_closed(self) == self.application_state # DISCONNECTED

\* assert self.application_state == WebSocketState.CONNECTED
helper_state_ok(self) == self.application_state = CONNECTED

\* (variant with a bug: a message without the payload ends the connection)
Payload_closes(r, key) ==
    IF raise_on_disconnect(r.value)
    THEN [r EXCEPT !.exc = "WebSocketDisconnect", !.value = disconnect_code(r.value)]
    ELSE IF key \in DOMAIN r.value
         THEN [r EXCEPT !.value = r.value[key]]
         ELSE [r EXCEPT !.exc = "KeyError", !.value = key, !.client_state = DISCONNECTED]

\* message[key] of the received message, after _raise_on_disconnect
Payload(r, key) ==
    IF raise_on_disconnect(r.value)
    THEN [r EXCEPT !.exc = "WebSocketDisconnect", !.value = disconnect_code(r.value)]
    ELSE IF key \in DOMAIN r.value
         THEN [r EXCEPT !.value = r.value[key]]
         ELSE [r EXCEPT !.exc = "KeyError", !.value = key]

receive_text(self, message) ==
    IF ~helper_state_ok(self) THEN Raise(self, <<>>, <<>>, "AssertionError", "None")
    ELSE LET r == receive(self, message) IN
         IF r.exc # "None" THEN r ELSE Payload(r, "text")

receive_bytes(self, message) ==
    IF ~helper_state_ok(self) THEN Raise(self, <<>>, <<>>, "AssertionError", "None")
    ELSE LET r == receive(self, message) IN
         IF r.exc # "None" THEN r ELSE Payload(r, "bytes")

\* assert mode in ["text", "binary"]
mode_ok(mode) == mode \in {"text", "binary"}

\* json.loads(text) on the text a receive_json call extracted; json.loads(None)
\* raises TypeError
LoadJson(r) ==
    IF r.value = NoneOf("text") THEN [r EXCEPT !.exc = "TypeError", !.value = "None"]
    ELSE IF JsonValid(r.value)
    THEN [r EXCEPT !.value = JsonLoads(r.value)]
    ELSE [r EXCEPT !.exc = "JSONDecodeError", !.value = "None"]

receive_json(self, message, mode) ==
    IF ~mode_ok(mode) THEN Raise(self, <<>>, <<>>, "AssertionError", "None")
    ELSE IF ~helper_state_ok(self) THEN Raise(self, <<>>, <<>>, "AssertionError", "None")
    ELSE LET r == receive(self, message) IN
         IF r.exc # "None" THEN r
         ELSE IF mode = "text" THEN
             LET p == Payload(r, "text") IN
             IF p.exc # "None" THEN p ELSE LoadJson(p)
         ELSE
             LET p == Payload(r, "bytes") IN
             IF p.exc # "None" THEN p
             ELSE IF p.value = NoneOf("bytes")
                  THEN [p EXCEPT !.exc = "AttributeError", !.value = "None"]
             ELSE IF ~Utf8Valid(p.value)
                  THEN [p EXCEPT !.exc = "UnicodeDecodeError", !.value = "None"]
                  ELSE LoadJson([p EXCEPT !.value = Utf8Decode(p.value)])

-----------------------------------------------------------------------------
(* The send helpers and close                                              *)

send_text(self, data) == send(self, [type |-> "websocket.send", text |-> data])

send_bytes(self, data) == send(self, [type |-> "websocket.send", bytes |-> data])

send_json(self, data, mode) ==
    IF ~mode_ok(mode) THEN Raise(self, <<>>, <<>>, "AssertionError", "None")
    ELSE IF mode = "text"
         THEN send(self, [type |-> "websocket.send", text |-> JsonDumps(data)])
         ELSE send(self, [type |-> "websocket.send", bytes |-> Utf8Encode(JsonDumps(data))])

close_message(code) == [type |-> "websocket.close", code |-> code]

close(self, code) == send(self, close_message(code))

\* await websocket.accept() and then await websocket.send_text(data): an
\* exception of accept() ends the sequence
accept_send_text(self, message, subprotocol, data) ==
    LET r == accept(self, message, subprotocol) IN
    IF r.exc # "None" THEN r ELSE Then(r, send_text(StateOf(r), data))

-----------------------------------------------------------------------------
(* iter_text, iter_bytes, iter_json: one step of the async generator, that *)
(* is one "yield await self.receive_...()" inside try/except.              *)

IterKinds == {"text", "bytes", "json"}

iter_receive(kind, self, message) ==
    CASE kind = "text" -> receive_text(self, message)
      [] kind = "bytes" -> receive_bytes(self, message)
      [] kind = "json" -> receive_json(self, message, "text")

\* (variant with a bug: no except clause)
iter_absorbs_nothing(exc) == FALSE

\* (variant with a bug: a bare except clause)
iter_absorbs_all(exc) == exc # "None"

\* except WebSocketDisconnect: pass -- the generator returns, which the
\* consumer sees as StopAsyncIteration; any other exception leaves the generator
iter_absorbs(exc) == exc = "WebSocketDisconnect"

iter_step(kind, self, message) ==
    LET r == iter_receive(kind, self, message) IN
    IF iter_absorbs(r.exc) THEN [r EXCEPT !.exc = "StopAsyncIteration", !.value = "None"]
    ELSE r

-----------------------------------------------------------------------------
(* The state machine: one WebSocket object and the calls made on it, one   *)
(* at a time.  sent is the trace of the messages handed to self._send,     *)
(* last the most recent call (its name, argument, the state it started     *)
(* from and its result), gen the async generator the caller holds.         *)

NoCall == [op |-> "init", arg |-> "None", pre |-> [client_state |-> CONNECTING,
           application_state |-> CONNECTING], exc |-> "None", value |-> "None",
           rx |-> <<>>, tx |-> <<>>]

NoGen == [kind |-> "none", done |-> TRUE, accepted |-> FALSE, yielded |-> <<>>,
          rx |-> <<>>, exc |-> "None"]

\* a flow that has made no call
NoFlow == [op |-> "none", at |-> "idle", pre |-> [client_state |-> CONNECTING,
           application_state |-> CONNECTING], rx |-> <<>>, msg |-> <<>>, exc |-> "None"]

\* WebSocket.__init__
Init ==
    /\ client_state = CONNECTING
    /\ application_state = CONNECTING
    /\ sent = <<>>
    /\ last = NoCall
    /\ gen = NoGen
    /\ rxflow = NoFlow
    /\ txflow = NoFlow
    /\ wire = "connect"
    /\ inbound = <<>>
    /\ returns = <<>>

\* the call op(arg) made in the current state ended with result r
Call(op, arg, r) ==
    /\ Len(sent) + Len(r.tx) <= MaxSent
    /\ client_state' = r.client_state
    /\ application_state' = r.application_state
    /\ sent' = sent \o r.tx
    /\ last' = [op |-> op, arg |-> arg, pre |-> Self, exc |-> r.exc, value |-> r.value,
                rx |-> r.rx, tx |-> r.tx]
    /\ UNCHANGED conc

Receive ==
    /\ \E m \in InboundMessages : Call("receive", "None", receive(Self, m))
    /\ UNCHANGED gen

Send ==
    /\ \E message \in OutboundMessages : Call("send", message, send(Self, message))
    /\ UNCHANGED gen

Accept ==
    /\ \E m \in InboundMessages, subprotocol \in Subprotocols :
          Call("accept", subprotocol, accept(Self, m, subprotocol))
    /\ UNCHANGED gen

ReceiveText ==
    /\ \E m \in InboundMessages : Call("receive_text", "None", receive_text(Self, m))
    /\ UNCHANGED gen

ReceiveBytes ==
    /\ \E m \in InboundMessages : Call("receive_bytes", "None", receive_bytes(Self, m))
    /\ UNCHANGED gen

ReceiveJson ==
    /\ \E m \in InboundMessages, mode \in Modes :
          Call("receive_json", mode, receive_json(Self, m, mode))
    /\ UNCHANGED gen

SendText ==
    /\ \E data \in Texts : Call("send_text", data, send_text(Self, data))
    /\ UNCHANGED gen

SendBytes ==
    /\ \E data \in {<<49>>} : Call("send_bytes", data, send_bytes(Self, data))
    /\ UNCHANGED gen

SendJson ==
    /\ \E data \in JsonValues, mode \in Modes :
          Call("send_json", mode, send_json(Self, data, mode))
    /\ UNCHANGED gen

Close ==
    /\ \E code \in Codes : Call("close", code, close(Self, code))
    /\ UNCHANGED gen

AcceptSendText ==
    /\ \E m \in InboundMessages, subprotocol \in Subprotocols, data \in Texts :
          Call("accept;send_text", data, accept_send_text(Self, m, subprotocol, data))
    /\ UNCHANGED gen

\* calling iter_text() / iter_bytes() / iter_json() creates the generator and
\* runs none of its body; accepted records whether both directions were open
Iter ==
    /\ \E kind \in IterKinds :
          /\ gen' = [NoGen EXCEPT !.kind = kind, !.done = FALSE,
                                  !.accepted = (client_state = CONNECTED
                                                /\ application_state = CONNECTED)]
          /\ last' = [NoCall EXCEPT !.op = "iter", !.arg = kind, !.pre = Self]
    /\ UNCHANGED <<client_state, application_state, sent, conc>>

\* __anext__ on the generator: it runs to its next yield, or to its end; on
\* a generator that has ended it raises StopAsyncIteration at once
Anext ==
    /\ gen.kind # "none"
    /\ IF gen.done
       THEN /\ last' = [NoCall EXCEPT !.op = "anext", !.arg = gen.kind, !.pre = Self,
                                      !.exc = "StopAsyncIteration"]
            /\ UNCHANGED <<client_state, application_state, sent, gen, conc>>
       ELSE \E m \in InboundMessages :
              LET r == iter_step(gen.kind, Self, m) IN
              /\ r.exc = "None" => Len(gen.yielded) < MaxYield
              /\ Call("anext", gen.kind, r)
              /\ gen' = [gen EXCEPT !.done = (r.exc # "None"),
                                    !.exc = r.exc,
                                    !.rx = @ \o r.rx,
                                    !.yielded = IF r.exc = "None" THEN Append(@, r.value) ELSE @]

\* direct calls of the methods, no generator in use
Next ==
    \/ Receive
    \/ Send
    \/ Accept
    \/ ReceiveText
    \/ ReceiveBytes
    \/ ReceiveJson
    \/ SendText
    \/ SendBytes
    \/ SendJson
    \/ Close
    \/ AcceptSendText

Spec == Init /\ [][Next]_vars

\* a consumer of one of the generators, which may also call accept, receive,
\* send_text and close between two steps of the iteration
NextIter ==
    \/ Accept
    \/ Receive
    \/ SendText
    \/ Close
    \/ Iter
    \/ Anext

SpecIter == Init /\ [][NextIter]_vars

-----------------------------------------------------------------------------
(* Two flows on one WebSocket: a receive flow that calls receive(), and a  *)
(* send flow that calls accept(), send_text() and close().  A call runs    *)
(* up to its "await self._receive()" or "await self._send(message)",       *)
(* where the other flow may run, and resumes when the transport answers.   *)
(* rxflow and txflow hold each flow's current call: its name, where it is  *)
(* suspended (at), the state it started from, what it read, the message it *)
(* handed to self._send and the exception it ended with.  wire is the      *)
(* transport's inbound side, which follows the ASGI order: one connect,    *)
(* then data messages once accepted, then one disconnect.  inbound is the  *)
(* sequence of messages self._receive has yielded, returns the sequence    *)
(* of messages that calls of receive() have returned (to the flow, or to   *)
(* accept()).  Here sent holds the messages self._send has taken; the      *)
(* message handed to it and not yet taken is txflow.msg.                   *)

ConcTexts == {"a"}
ConcCodes == {1000}

\* the server has taken the application's accept
Accepted == \E i \in 1..Len(sent) : sent[i].type = "websocket.accept"

\* the peer's data follows the application's accept; its disconnect may come
\* at any time after its connect
TransportYields(w) ==
    CASE Len(inbound) >= MaxInbound -> {}
      [] w = "connect" -> {[type |-> "websocket.connect"]}
      [] w = "open" -> (IF Accepted
                        THEN {[type |-> "websocket.receive", text |-> t] : t \in ConcTexts}
                        ELSE {})
                       \cup {[type |-> "websocket.disconnect", code |-> c] : c \in ConcCodes}
      [] OTHER -> {}

TransportAfter(message) ==
    IF message.type = "websocket.disconnect" THEN "gone" ELSE "open"

\* where receive() suspends, from the branch it takes on entry
receive_entry(self) ==
    IF receive_is_connecting(self.client_state) THEN "receive_connecting"
    ELSE IF receive_is_connected(self.client_state) THEN "receive_connected"
    ELSE "raise"

\* receive() from its await on, in the branch it suspended in
receive_resume(at, self, message) ==
    IF at = "receive_connecting" THEN receive_connecting(self, message)
    ELSE receive_connected(self, message)

ReadPending(flow) == flow.at \in {"receive_connecting", "receive_connected"}

\* self._receive yielded message to a call of receive(), which ended with r
Read(message, r) ==
    /\ wire' = TransportAfter(message)
    /\ inbound' = Append(inbound, message)
    /\ returns' = IF r.exc = "None" THEN Append(returns, r.value) ELSE returns

\* the flow enters receive() (directly, or as the first step of accept())
EnterReceive(flow, op) ==
    LET at == receive_entry(Self) IN
    IF at = "raise"
    THEN [NoFlow EXCEPT !.op = op, !.pre = Self, !.exc = "RuntimeError"]
    ELSE [NoFlow EXCEPT !.op = op, !.pre = Self, !.at = at]

\* the send flow runs send(message) up to its await: the state is set, then
\* self._send(message) is called and the flow waits for it
EnterSend(op, pre, rx, r) ==
    /\ Len(sent) + Len(r.tx) <= MaxSent
    /\ client_state' = r.client_state
    /\ application_state' = r.application_state
    /\ txflow' = [op |-> op, at |-> IF r.exc = "None" THEN "_send" ELSE "idle", pre |-> pre,
                  rx |-> rx, msg |-> r.tx, exc |-> r.exc]

ConcReceive ==
    /\ rxflow.at = "idle"
    /\ rxflow' = EnterReceive(rxflow, "receive")
    /\ UNCHANGED <<client_state, application_state, sent, last, gen, txflow, wire,
                   inbound, returns>>

\* the transport yields its next message to the receive flow
ConcReceiveResume ==
    /\ ReadPending(rxflow)
    /\ \E m \in TransportYields(wire) :
          LET r == receive_resume(rxflow.at, Self, m) IN
          /\ client_state' = r.client_state
          /\ application_state' = r.application_state
          /\ rxflow' = [rxflow EXCEPT !.at = "idle", !.rx = r.rx, !.exc = r.exc]
          /\ Read(m, r)
    /\ UNCHANGED <<sent, last, gen, txflow>>

ConcAccept ==
    /\ txflow.at = "idle"
    /\ IF accept_receives(Self)
       THEN /\ txflow' = EnterReceive(txflow, "accept")
            /\ UNCHANGED <<client_state, application_state>>
       ELSE EnterSend("accept", Self, <<>>, send(Self, accept_message("None")))
    /\ UNCHANGED <<sent, last, gen, rxflow, wire, inbound, returns>>

\* the transport yields its next message to the receive() inside accept(),
\* which goes on to its send()
ConcAcceptResume ==
    /\ ReadPending(txflow)
    /\ \E m \in TransportYields(wire) :
          LET received == receive_resume(txflow.at, Self, m)
              r == accept_after_receive(received, "None")
          IN /\ EnterSend("accept", txflow.pre, r.rx, r)
             /\ Read(m, received)
    /\ UNCHANGED <<sent, last, gen, rxflow>>

ConcSendText ==
    /\ txflow.at = "idle"
    /\ \E data \in ConcTexts : EnterSend("send_text", Self, <<>>, send_text(Self, data))
    /\ UNCHANGED <<sent, last, gen, rxflow, wire, inbound, returns>>

ConcClose ==
    /\ txflow.at = "idle"
    /\ \E code \in ConcCodes : EnterSend("close", Self, <<>>, close(Self, code))
    /\ UNCHANGED <<sent, last, gen, rxflow, wire, inbound, returns>>

\* self._send(message) returns: the transport has taken the message
ConcSendDone ==
    /\ txflow.at = "_send"
    /\ sent' = sent \o txflow.msg
    /\ txflow' = [txflow EXCEPT !.at = "idle"]
    /\ UNCHANGED <<client_state, application_state, last, gen, rxflow, wire,
                   inbound, returns>>

\* self._send(message) raises: the delivery failed, and the exception leaves
\* send() and its caller unchanged
ConcSendFail ==
    /\ txflow.at = "_send"
    /\ txflow' = [txflow EXCEPT !.at = "idle", !.exc = "TransportError"]
    /\ UNCHANGED <<client_state, application_state, sent, last, gen, rxflow, wire,
                   inbound, returns>>

NextConc ==
    \/ ConcReceive
    \/ ConcReceiveResume
    \/ ConcAccept
    \/ ConcAcceptResume
    \/ ConcSendText
    \/ ConcClose
    \/ ConcSendDone

\* a transport whose self._send never raises
SpecConc == Init /\ [][NextConc]_vars

NextFail ==
    \/ NextConc
    \/ ConcSendFail

\* a transport whose self._send may raise
SpecFail == Init /\ [][NextFail]_vars

-----------------------------------------------------------------------------
(* Properties.                                                             *)

Fresh == [client_state |-> CONNECTING, application_state |-> CONNECTING]

ReceiveHelpers == {"receive_text", "receive_bytes", "receive_json"}
ReceiveCalls == {"receive"} \cup ReceiveHelpers
SendCalls == {"send", "send_text", "send_bytes", "send_json", "close"}

\* the last call raised the RuntimeError of receive() / of send()
RaisedReceiveAfterDisconnect == last.exc = "RuntimeError" /\ last.value = ReceiveAfterDisconnect
RaisedSendAfterClose == last.exc = "RuntimeError" /\ last.value = SendAfterClose

\* C1: no call, whether it returns or raises, moves client_state or
\* application_state to an earlier value of CONNECTING -> CONNECTED ->
\* DISCONNECTED; in particular DISCONNECTED is never left.
C1_Monotonic ==
    [][/\ client_state' >= client_state
       /\ application_state' >= application_state]_vars

\* a call made with both directions closed, which left both closed
C1_Witness ==
    /\ last.op = "accept"
    /\ last.pre = [client_state |-> DISCONNECTED, application_state |-> DISCONNECTED]
    /\ client_state = DISCONNECTED
    /\ application_state = DISCONNECTED

\* C2 as stated: with client_state DISCONNECTED every receive call (receive,
\* receive_text, receive_bytes, receive_json), whatever application_state is,
\* raises the RuntimeError of receive(), reads nothing from the transport and
\* changes neither state.
C2_Original ==
    (last.op \in ReceiveCalls /\ last.pre.client_state = DISCONNECTED)
        => /\ RaisedReceiveAfterDisconnect
           /\ last.rx = <<>>
           /\ Self = last.pre

\* C2 as amended: with client_state DISCONNECTED, receive() raises that
\* RuntimeError for every application_state, and a typed helper raises it
\* when application_state is CONNECTED; with application_state not CONNECTED
\* a typed helper fails its assertion instead. In every case nothing is read
\* from the transport and neither state changes.
C2_Amended ==
    (last.op \in ReceiveCalls /\ last.pre.client_state = DISCONNECTED)
        => /\ IF last.op = "receive" \/ last.pre.application_state = CONNECTED
              THEN RaisedReceiveAfterDisconnect
              ELSE last.exc = "AssertionError"
           /\ last.rx = <<>>
           /\ Self = last.pre

C2_Witness ==
    /\ last.op = "receive_json"
    /\ last.pre = [client_state |-> DISCONNECTED, application_state |-> CONNECTED]
    /\ RaisedReceiveAfterDisconnect

\* the state accept() is in when it reaches its send: the state receive()
\* left if accept() called it, else the state accept() started from
AcceptSendHalfRan ==
    last.pre.client_state = CONNECTING => last.rx[1].type = "websocket.connect"
AcceptBeforeSend ==
    IF last.pre.client_state = CONNECTING
    THEN StateOf(receive(last.pre, last.rx[1]))
    ELSE last.pre

\* C3: with application_state DISCONNECTED every send call (send with any
\* message, send_text, send_bytes, send_json, close, and the send that ends
\* accept) raises the RuntimeError of send(), hands nothing to the transport
\* and leaves application_state DISCONNECTED and client_state as it was.
C3_SendAfterClose ==
    /\ (last.op \in SendCalls /\ last.pre.application_state = DISCONNECTED)
        => /\ RaisedSendAfterClose
           /\ last.tx = <<>>
           /\ Self = last.pre
    /\ (/\ last.op = "accept"
        /\ last.pre.application_state = DISCONNECTED
        /\ AcceptSendHalfRan)
        => /\ RaisedSendAfterClose
           /\ last.tx = <<>>
           /\ Self = AcceptBeforeSend
           /\ application_state = DISCONNECTED

\* accept() after a local close, on a connection whose connect was not read yet
C3_Witness ==
    /\ last.op = "accept"
    /\ last.pre = [client_state |-> CONNECTING, application_state |-> DISCONNECTED]
    /\ RaisedSendAfterClose
    /\ sent = <<close_message(4000)>>

\* C4: on a fresh connection accept() followed at once by send_text(x)
\* succeeds exactly when the first message the transport yields is
\* websocket.connect; with any other first message accept() fails its
\* assertion, application_state stays CONNECTING and nothing is handed to
\* the transport.
C4_AcceptThenSendText ==
    (last.op = "accept;send_text" /\ last.pre = Fresh)
        => /\ Len(last.rx) = 1
           /\ last.exc = "None" <=> last.rx[1].type = "websocket.connect"
           /\ last.exc = "None"
                => /\ last.tx = <<accept_message("None"),
                                  [type |-> "websocket.send", text |-> last.arg]>>
                   /\ application_state = CONNECTED
           /\ last.exc # "None"
                => /\ last.exc = "AssertionError"
                   /\ application_state = CONNECTING
                   /\ last.tx = <<>>
                   /\ sent = <<>>

\* both outcomes exist; the witness is the successful one
C4_Witness ==
    /\ last.op = "accept;send_text"
    /\ last.pre = Fresh
    /\ last.exc = "None"
    /\ sent = <<accept_message("None"), [type |-> "websocket.send", text |-> "a"]>>

\* C5: close(c) with application_state CONNECTING or CONNECTED sets it to
\* DISCONNECTED and hands exactly one message to the transport,
\* websocket.close with code c; once a websocket.close has been handed over
\* application_state is DISCONNECTED, and a close() made in that state
\* raises the RuntimeError of send() and hands nothing more over.
C5_Close ==
    /\ (last.op = "close" /\ last.pre.application_state \in {CONNECTING, CONNECTED})
        => /\ last.exc = "None"
           /\ application_state = DISCONNECTED
           /\ last.tx = <<close_message(last.arg)>>
    /\ (\E i \in 1..Len(sent) : sent[i].type = "websocket.close")
        => application_state = DISCONNECTED
    /\ (last.op = "close" /\ last.pre.application_state = DISCONNECTED)
        => /\ RaisedSendAfterClose
           /\ last.tx = <<>>
           /\ application_state = DISCONNECTED

\* a second close() after close(4000)
C5_Witness ==
    /\ last.op = "close"
    /\ last.pre.application_state = DISCONNECTED
    /\ RaisedSendAfterClose
    /\ sent = <<accept_message("None"), close_message(4000)>>

IsText(message) == message.type = "websocket.receive" /\ "text" \in DOMAIN message
IsDisconnect(message) == message.type = "websocket.disconnect"

\* what the generator read is n >= 0 text messages and then a disconnect
ReadTextsThenDisconnect ==
    /\ gen.rx # <<>>
    /\ IsDisconnect(gen.rx[Len(gen.rx)])
    /\ \A i \in 1..(Len(gen.rx) - 1) : IsText(gen.rx[i])

\* C6: an iter_text() generator created with both states CONNECTED, whose
\* steps read n >= 0 text messages and then a disconnect, yielded exactly
\* the n texts in the order read and then ended without raising; client_state
\* is DISCONNECTED from then on.
C6_IterText ==
    (gen.kind = "text" /\ gen.accepted /\ ReadTextsThenDisconnect)
        => /\ gen.done
           /\ gen.exc = "StopAsyncIteration"
           /\ gen.yielded = [i \in 1..(Len(gen.rx) - 1) |-> gen.rx[i].text]
           /\ client_state = DISCONNECTED

\* two texts and then the disconnect
C6_Witness ==
    /\ gen.kind = "text"
    /\ gen.accepted
    /\ ReadTextsThenDisconnect
    /\ gen.yielded = <<"a", "1">>
    /\ gen.exc = "StopAsyncIteration"

\* C7: the transition table of receive(). From CONNECTING a connect is
\* returned and client_state becomes CONNECTED, any other message fails the
\* assertion and client_state stays CONNECTING; from CONNECTED a data message
\* is returned with client_state still CONNECTED, a disconnect is returned
\* with client_state DISCONNECTED, any other message fails the assertion and
\* client_state stays CONNECTED. application_state never changes.
C7_ReceiveTable ==
    (last.op = "receive" /\ last.pre.client_state \in {CONNECTING, CONNECTED})
        => LET m == last.rx[1]
               returned(state) == /\ last.exc = "None"
                                  /\ last.value = m
                                  /\ client_state = state
               violation == /\ last.exc = "AssertionError"
                            /\ client_state = last.pre.client_state
           IN /\ Len(last.rx) = 1
              /\ application_state = last.pre.application_state
              /\ IF last.pre.client_state = CONNECTING
                 THEN IF m.type = "websocket.connect" THEN returned(CONNECTED) ELSE violation
                 ELSE CASE m.type = "websocket.receive" -> returned(CONNECTED)
                        [] m.type = "websocket.disconnect" -> returned(DISCONNECTED)
                        [] OTHER -> violation

\* a websocket.accept arriving on an open connection
C7_Witness ==
    /\ last.op = "receive"
    /\ last.pre.client_state = CONNECTED
    /\ last.rx = <<[type |-> "websocket.accept"]>>
    /\ last.exc = "AssertionError"
    /\ client_state = CONNECTED

\* C8: the transition table of send(). From CONNECTING an accept moves
\* application_state to CONNECTED and a close to DISCONNECTED, both handed
\* to the transport, any other message fails the assertion; from CONNECTED
\* a data message leaves application_state CONNECTED and a close moves it to
\* DISCONNECTED, both handed to the transport, any other message (a second
\* accept too) fails the assertion. A failed assertion leaves
\* application_state as it was and hands nothing to the transport.
C8_SendTable ==
    (last.op = "send" /\ last.pre.application_state \in {CONNECTING, CONNECTED})
        => LET m == last.arg
               forwarded(state) == /\ last.exc = "None"
                                   /\ last.tx = <<m>>
                                   /\ application_state = state
               violation == /\ last.exc = "AssertionError"
                            /\ last.tx = <<>>
                            /\ application_state = last.pre.application_state
           IN IF last.pre.application_state = CONNECTING
              THEN CASE m.type = "websocket.accept" -> forwarded(CONNECTED)
                     [] m.type = "websocket.close" -> forwarded(DISCONNECTED)
                     [] OTHER -> violation
              ELSE CASE m.type = "websocket.send" -> forwarded(CONNECTED)
                     [] m.type = "websocket.close" -> forwarded(DISCONNECTED)
                     [] OTHER -> violation

\* a second accept on an accepted connection
C8_Witness ==
    /\ last.op = "send"
    /\ last.pre.application_state = CONNECTED
    /\ last.arg.type = "websocket.accept"
    /\ last.exc = "AssertionError"
    /\ sent = <<accept_message("None")>>

\* C9: a typed receive helper called with both states CONNECTED that reads
\* a disconnect with code c raises WebSocketDisconnect(c), and client_state
\* is DISCONNECTED when it does.
C9_DisconnectSignal ==
    (/\ last.op \in ReceiveHelpers
     /\ last.pre = [client_state |-> CONNECTED, application_state |-> CONNECTED]
     /\ last.rx # <<>>
     /\ IsDisconnect(last.rx[1]))
        => /\ last.exc = "WebSocketDisconnect"
           /\ last.value = last.rx[1].code
           /\ client_state = DISCONNECTED

C9_Witness ==
    /\ last.op = "receive_bytes"
    /\ last.pre = [client_state |-> CONNECTED, application_state |-> CONNECTED]
    /\ last.rx = <<[type |-> "websocket.disconnect", code |-> 4000]>>
    /\ last.exc = "WebSocketDisconnect"
    /\ last.value = 4000

\* C10: a typed receive helper called with application_state CONNECTING or
\* DISCONNECTED fails its assertion before it reads: nothing is read from
\* the transport and client_state (like application_state) is unchanged.
C10_HelperNeedsOpen ==
    (last.op \in ReceiveHelpers /\ last.pre.application_state # CONNECTED)
        => /\ last.exc = "AssertionError"
           /\ last.rx = <<>>
           /\ Self = last.pre

\* receive_text() before accept(), with a client that has already connected
C10_Witness ==
    /\ last.op = "receive_text"
    /\ last.pre = [client_state |-> CONNECTED, application_state |-> CONNECTING]
    /\ last.exc = "AssertionError"

IsData(message) == message.type = "websocket.receive"

\* the payload message[key] is populated: the key is there and is not None
Populated(message, key) == key \in DOMAIN message /\ message[key] # NoneOf(key)

\* the exceptions that extracting and decoding a payload raise
PayloadErrors == {"KeyError", "TypeError", "AttributeError", "UnicodeDecodeError",
                  "JSONDecodeError"}

BothOpen == [client_state |-> CONNECTED, application_state |-> CONNECTED]

\* C11: a typed receive helper that receives a data message with neither
\* the text nor the bytes payload populated fails, with an error of the
\* payload (not an AssertionError, not any other outcome).
C11_NeitherPopulated ==
    (/\ last.op \in ReceiveHelpers
     /\ last.pre = BothOpen
     /\ last.rx # <<>>
     /\ IsData(last.rx[1])
     /\ ~Populated(last.rx[1], "text")
     /\ ~Populated(last.rx[1], "bytes"))
        => last.exc \in PayloadErrors

\* the last call started with client_state CONNECTING and the first message
\* it read from the transport was a disconnect
DisconnectBeforeConnect ==
    /\ last.pre.client_state = CONNECTING
    /\ last.rx # <<>>
    /\ IsDisconnect(last.rx[1])

\* C12 as stated: a disconnect delivered as the first inbound message, while
\* client_state is CONNECTING, moves client_state straight to DISCONNECTED.
C12_Original == DisconnectBeforeConnect => client_state = DISCONNECTED

\* C12 as amended: a disconnect delivered as the first inbound message,
\* while client_state is CONNECTING, fails the assertion of receive() and
\* leaves client_state CONNECTING (and application_state as it was); no call
\* moves client_state by more than one step, so CONNECTED is never skipped.
C12_Amended ==
    /\ DisconnectBeforeConnect
        => /\ last.exc = "AssertionError"
           /\ Len(last.rx) = 1
           /\ Self = last.pre
    /\ client_state - last.pre.client_state \in {0, 1}

\* accept() on a fresh connection whose peer is already gone
C12_Witness ==
    /\ last.op = "accept"
    /\ last.pre = Fresh
    /\ last.rx = <<[type |-> "websocket.disconnect", code |-> 1000]>>
    /\ last.exc = "AssertionError"
    /\ client_state = CONNECTING


\* the result of the typed helper that one step of the generator calls, in
\* the state before the step; the message matters only if the helper read one
StepHelper ==
    iter_receive(gen.kind, Self,
                 IF last'.rx = <<>> THEN [type |-> "websocket.connect"] ELSE last'.rx[1])

\* C13: the generators absorb only WebSocketDisconnect. Whatever else the
\* typed helper of a step raises (an AssertionError for a message of the
\* wrong type or for application_state not CONNECTED, an error of the
\* payload, the RuntimeError of receive()) is raised to the consumer by that
\* step and ends the generator with nothing yielded; a WebSocketDisconnect
\* ends it with no error; and a generator that has ended yields nothing more.
C13_IterPropagates ==
    [][last'.op = "anext"
        => IF gen.done
           THEN gen' = gen /\ last'.exc = "StopAsyncIteration"
           ELSE /\ StepHelper.exc \notin {"None", "WebSocketDisconnect"}
                    => /\ last'.exc = StepHelper.exc
                       /\ last'.value = StepHelper.value
                       /\ gen'.done
                       /\ gen'.exc = StepHelper.exc
                       /\ gen'.yielded = gen.yielded
                /\ StepHelper.exc = "WebSocketDisconnect"
                    => /\ last'.exc = "StopAsyncIteration"
                       /\ gen'.done
                       /\ gen'.yielded = gen.yielded]_vars

\* iter_text() yielded "a", its next step read a data message with no text
\* and raised KeyError, and the step after that found the generator ended
C13_Witness ==
    /\ gen.kind = "text"
    /\ gen.done
    /\ gen.exc = "KeyError"
    /\ gen.yielded = <<"a">>
    /\ last.op = "anext"
    /\ last.exc = "StopAsyncIteration"


\* the accept was delivered, which accept() hands over only once the connect
\* has been read: the handshake is complete in both directions
HandshakeDone == sent # <<>> /\ sent[1].type = "websocket.accept"

CloseSent == \E i \in 1..Len(sent) : sent[i].type = "websocket.close"

\* the receive flow's receive(), entered with client_state CONNECTED, has
\* returned from its await with the peer's disconnect
TerminationRead ==
    /\ rxflow.op = "receive"
    /\ rxflow.pre.client_state = CONNECTED
    /\ rxflow.at = "idle"
    /\ rxflow.rx # <<>>
    /\ IsDisconnect(rxflow.rx[1])

\* C14: after the handshake, in every interleaving of the two flows at
\* their awaits, the first close() of the send flow succeeds whether or not
\* the peer's disconnect was read before it (application_state is
\* DISCONNECTED and the close is handed over, then delivered), and a
\* receive() of the receive flow that reads the disconnect succeeds whether
\* or not the close came before it (client_state is DISCONNECTED); receive()
\* is refused only once the disconnect was read. When both have happened
\* both states are DISCONNECTED.
C14_Independent ==
    /\ (txflow.op = "close" /\ HandshakeDone /\ ~CloseSent)
        => /\ txflow.exc = "None"
           /\ txflow.at = "_send"
           /\ txflow.msg = <<close_message(1000)>>
           /\ application_state = DISCONNECTED
    /\ TerminationRead
        => /\ rxflow.exc = "None"
           /\ client_state = DISCONNECTED
    /\ (rxflow.op = "receive" /\ rxflow.exc = "RuntimeError") => wire = "gone"
    /\ (TerminationRead /\ HandshakeDone /\ CloseSent)
        => /\ client_state = DISCONNECTED
           /\ application_state = DISCONNECTED

\* close() and the receive() that read the disconnect were both entered
\* while both states were CONNECTED, so they overlapped, and both returned
C14_Witness ==
    /\ TerminationRead
    /\ rxflow.pre = BothOpen
    /\ rxflow.exc = "None"
    /\ txflow.op = "close"
    /\ txflow.pre = BothOpen
    /\ txflow.at = "idle"
    /\ txflow.exc = "None"
    /\ sent = <<accept_message("None"), close_message(1000)>>
    /\ client_state = DISCONNECTED
    /\ application_state = DISCONNECTED


AcceptCalls == {"accept", "accept;send_text"}

\* C15 as stated: the receive calls leave application_state as it was, and
\* the send calls, close and accept leave client_state as it was.
C15_Original ==
    /\ last.op \in ReceiveCalls => application_state = last.pre.application_state
    /\ last.op \in SendCalls \cup AcceptCalls => client_state = last.pre.client_state

\* C15 as amended: the receive calls leave application_state as it was;
\* send, send_text, send_bytes, send_json and close leave client_state as it
\* was; accept leaves client_state as it was unless it is CONNECTING, when
\* the receive() it calls moves it to CONNECTED on reading a connect and
\* leaves it CONNECTING on reading anything else.
C15_Amended ==
    /\ last.op \in ReceiveCalls => application_state = last.pre.application_state
    /\ last.op \in SendCalls => client_state = last.pre.client_state
    /\ last.op \in AcceptCalls
        => IF last.pre.client_state = CONNECTING
           THEN /\ Len(last.rx) = 1
                /\ client_state = IF last.rx[1].type = "websocket.connect"
                                  THEN CONNECTED ELSE CONNECTING
           ELSE /\ last.rx = <<>>
                /\ client_state = last.pre.client_state

\* accept() on a fresh connection: both states moved to CONNECTED
C15_Witness ==
    /\ last.op = "accept"
    /\ last.pre = Fresh
    /\ last.exc = "None"
    /\ client_state = CONNECTED
    /\ application_state = CONNECTED


IsPrefix(a, b) == Len(a) <= Len(b) /\ \A i \in 1..Len(a) : a[i] = b[i]

\* C16: nothing is lost, duplicated or reordered within a direction. The
\* messages that calls of receive() returned are, in order, a prefix of the
\* messages the transport yielded (every message read is returned by the
\* call that read it), and the last message the transport's send side took
\* is the message of the last send call that returned.
C16_Ordered ==
    /\ IsPrefix(returns, inbound)
    /\ (txflow.at = "idle" /\ txflow.exc = "None" /\ txflow.msg # <<>>)
        => /\ sent # <<>>
           /\ sent[Len(sent)] = txflow.msg[1]


\* C17: the trace of messages handed to self._send is a prefix of [close]
\* or of [accept, send*, close]: only these three types occur, an accept
\* only first, data only after an accept, and a close only last.
C17_SentShape ==
    \A i \in 1..Len(sent) :
        /\ sent[i].type \in {"websocket.accept", "websocket.send", "websocket.close"}
        /\ sent[i].type = "websocket.accept" => i = 1
        /\ sent[i].type = "websocket.send" => i > 1 /\ sent[1].type = "websocket.accept"
        /\ sent[i].type = "websocket.close" => i = Len(sent)

\* accept, one data message and close were handed over, and the call after
\* them, of any method, added nothing
C17_Witness ==
    /\ sent = <<accept_message("None"), [type |-> "websocket.send", bytes |-> <<49>>],
                close_message(1000)>>
    /\ last.op = "send"
    /\ last.arg = accept_message("None")
    /\ last.exc = "RuntimeError"


\* the message the send flow's call handed to self._send (which is taking
\* it, has taken it or has failed to) is of this type
Handed(message_type) == txflow.msg # <<>> /\ txflow.msg[1].type = message_type

\* C18: send() checks the message and sets application_state before it
\* hands the message to self._send. While a close is being delivered
\* application_state is already DISCONNECTED, while an accept is being
\* delivered it is already CONNECTED, and a message that fails the assertion
\* is not handed over. If the delivery fails the state stays as set, and a
\* close() made with application_state DISCONNECTED raises the RuntimeError
\* of send() and hands nothing over.
C18_AdvanceBeforeHandOver ==
    /\ (txflow.at = "_send" /\ Handed("websocket.close")) => application_state = DISCONNECTED
    /\ (txflow.at = "_send" /\ Handed("websocket.accept")) => application_state = CONNECTED
    /\ txflow.exc \in {"AssertionError", "RuntimeError"} => txflow.msg = <<>>
    /\ (txflow.exc = "TransportError" /\ Handed("websocket.close"))
        => application_state = DISCONNECTED
    /\ (txflow.exc = "TransportError" /\ Handed("websocket.accept"))
        => application_state = CONNECTED
    /\ (txflow.op = "close" /\ txflow.pre.application_state = DISCONNECTED)
        => /\ txflow.exc = "RuntimeError"
           /\ txflow.at = "idle"
           /\ application_state = DISCONNECTED

\* the transport took the accept and no close, and yet close() raises the
\* RuntimeError: the close() before it set the state and failed in delivery
C18_Witness ==
    /\ sent = <<accept_message("None")>>
    /\ txflow.op = "close"
    /\ txflow.pre.application_state = DISCONNECTED
    /\ txflow.exc = "RuntimeError"
    /\ application_state = DISCONNECTED


\* the last call was a typed helper on an open connection that read a data
\* message and raised an error of the payload
PayloadFailure ==
    /\ last.op \in ReceiveHelpers
    /\ last.pre = BothOpen
    /\ last.rx # <<>>
    /\ IsData(last.rx[1])
    /\ last.exc \in PayloadErrors

\* the call made next is a receive call: it reads one message, and a data
\* message or a disconnect that receive() reads is returned, a populated
\* text that receive_text() reads is returned
NextReceiveProceeds ==
    last'.op \in ReceiveCalls
        => /\ Len(last'.rx) = 1
           /\ last'.exc \notin {"RuntimeError", "AssertionError"}
                \/ ~receive_connected_ok(last'.rx[1].type)
           /\ (last'.op = "receive" /\ receive_connected_ok(last'.rx[1].type))
                => /\ last'.exc = "None"
                   /\ last'.value = last'.rx[1]
                   /\ client_state' = IF IsDisconnect(last'.rx[1])
                                      THEN DISCONNECTED ELSE CONNECTED
           /\ (last'.op = "receive_text" /\ IsData(last'.rx[1])
                                         /\ Populated(last'.rx[1], "text"))
                => /\ last'.exc = "None"
                   /\ last'.value = last'.rx[1].text

C20_OneReader ==
    /\ ~(ReadPending(rxflow) /\ ReadPending(txflow))
    /\ (txflow.op = "accept" /\ txflow.pre = Fresh) => txflow.exc # "AssertionError"
    /\ (rxflow.op = "receive" /\ rxflow.pre.client_state = CONNECTING)
        => rxflow.exc # "AssertionError"

====
